---- MODULE Spec2Model ----
(***************************************************************************)
(* Implicit treap of src/treap.cpp.  A Node* owns the subtree it points    *)
(* to and no Node is reachable from two places, so a pointer is modelled   *)
(* by the subtree it owns: a record of the fields of class Node whose      *)
(* left_child and right_child are again such records, or NULL.  The        *)
(* methods of class Node are operators that return the objects they        *)
(* rewrite in place; the callers of these methods are the actions.         *)
(***************************************************************************)
EXTENDS Integers, Sequences, FiniteSets, TLC

\* ------------------------------------------------------------------ bounds
MaxNodes == 3       \* number of Node objects alive at a time
MaxValue == 2       \* values are drawn from 1..MaxValue
MaxPriority == 3    \* get_random() draws priorities from 0..MaxPriority-1
MaxPerm == 4        \* main() sorts permutations of 1..n, n <= MaxPerm
MaxHeap == 5        \* number of values in the MinHeap at a time
MaxHeapValue == 3   \* values inserted into the MinHeap are 1..MaxHeapValue

\* ------------------------------------------------------- program constants
MIN_OF_NULL == 1073741824    \* get_min_value(nullptr) = 1 << 30
NO_INDEX == -1               \* find_min on an empty treap

VARIABLES
    root,       \* the treap the caller holds
    rest,       \* the right part a caller holds between a split and a merge
    last,       \* the last operation: its name, arguments, inputs and result
    pc,         \* "engine": between operations, "parts": between a split and
                \* a merge, "query" and "done": inside and after main()
    array,      \* main(): the input, num_elements = Len(array)
    step,       \* main(): loop counter i of the query loop
    output,     \* main(): the numbers written to cout
    full,       \* the array of the task statement, sorted step by step
    heap,       \* MinHeap::heap, heap[id] of the code being heap[id + 1] here
    last_pos,   \* MinHeap::last_pos
    hlast       \* the last MinHeap call: its name, argument, result and the
                \* lowest index at which sift_up accessed heap

vars == <<root, rest, last, pc, array, step, output, full, heap, last_pos, hlast>>

HeapVars == <<heap, last_pos, hlast>>
NoHeapOp == [op |-> "none", val |-> 0, res |-> 0, lowest |-> 0, returned |-> TRUE]

NULL == [null |-> TRUE]      \* nullptr
Values == 1..MaxValue
Priorities == 0..(MaxPriority - 1)

\* ------------------------------------------------------------ class Node
get_value(x) == IF x = NULL THEN -1 ELSE x.value
get_min_value(x) == IF x = NULL THEN MIN_OF_NULL ELSE x.min_value
get_priority(x) == IF x = NULL THEN -1 ELSE x.priority
get_size(x) == IF x = NULL THEN 0 ELSE x.size
get_height(x) == IF x = NULL THEN 0 ELSE x.height

max(a, b) == IF a > b THEN a ELSE b
min(a, b) == IF a < b THEN a ELSE b

\* reset_min as it would be if it left the cached minimum alone
reset_min_keeps_cache(x) == x

reset_min(x) ==
    IF x = NULL THEN x ELSE [x EXCEPT !.min_value = x.value]

swap_children(x) ==
    IF x = NULL THEN x
    ELSE [x EXCEPT !.left_child = x.right_child, !.right_child = x.left_child]

\* recalc as it would be if the size left out the right subtree
recalc_size_without_right(x) ==
    IF x = NULL THEN x
    ELSE LET sz == 1 + get_size(x.left_child)
         IN  IF x.left_child = NULL /\ x.right_child = NULL
             THEN [x EXCEPT !.size = sz, !.height = 0, !.min_value = x.value]
             ELSE [x EXCEPT !.size = sz,
                            !.height = 1 + max(get_height(x.left_child),
                                               get_height(x.right_child)),
                            !.min_value = min(get_min_value(x),
                                              min(get_min_value(x.left_child),
                                                  get_min_value(x.right_child)))]

\* recalc as it would be if the minimum were taken over the children only
recalc_min_of_children(x) ==
    IF x = NULL THEN x
    ELSE LET sz == 1 + get_size(x.left_child) + get_size(x.right_child)
         IN  IF x.left_child = NULL /\ x.right_child = NULL
             THEN [x EXCEPT !.size = sz, !.height = 0, !.min_value = x.value]
             ELSE [x EXCEPT !.size = sz,
                            !.height = 1 + max(get_height(x.left_child),
                                               get_height(x.right_child)),
                            !.min_value = min(get_min_value(x.left_child),
                                              get_min_value(x.right_child))]

recalc(x) ==
    IF x = NULL THEN x
    ELSE LET sz == 1 + get_size(x.left_child) + get_size(x.right_child)
         IN  IF x.left_child = NULL /\ x.right_child = NULL
             THEN [x EXCEPT !.size = sz, !.height = 0, !.min_value = x.value]
             ELSE [x EXCEPT !.size = sz,
                            !.height = 1 + max(get_height(x.left_child),
                                               get_height(x.right_child)),
                            !.min_value = min(get_min_value(x),
                                              min(get_min_value(x.left_child),
                                                  get_min_value(x.right_child)))]

\* child->reverse ^= true, guarded by child != nullptr
toggle_reverse(x) ==
    IF x = NULL THEN x ELSE [x EXCEPT !.reverse = ~x.reverse]

\* propagate as it would be if it did not hand the flag to the children
propagate_without_push(x) ==
    IF x = NULL THEN x
    ELSE IF x.reverse
         THEN recalc([swap_children(x) EXCEPT !.reverse = FALSE])
         ELSE x

propagate(x) ==
    IF x = NULL THEN x
    ELSE IF x.reverse
         THEN LET pushed == [x EXCEPT !.left_child = toggle_reverse(x.left_child),
                                      !.right_child = toggle_reverse(x.right_child)]
                  swapped == swap_children(pushed)
              IN  recalc([swapped EXCEPT !.reverse = FALSE])
         ELSE x

\* Node(value), with the priority get_random() returned
NewNode(value, priority) ==
    recalc([value |-> value, priority |-> priority, min_value |-> value,
            reverse |-> FALSE, size |-> 0, height |-> 0,
            left_child |-> NULL, right_child |-> NULL])

\* merge as it would be if it did not propagate the left root
RECURSIVE merge_left_unpropagated(_, _)
merge_left_unpropagated(left, right) ==
    IF left = NULL THEN right
    ELSE IF right = NULL THEN left
    ELSE LET l == left
             r == propagate(right)
         IN  IF get_priority(l) > get_priority(r)
             THEN recalc(reset_min([l EXCEPT !.right_child =
                                        merge_left_unpropagated(l.right_child, r)]))
             ELSE recalc(reset_min([r EXCEPT !.left_child =
                                        merge_left_unpropagated(l, r.left_child)]))

\* merge as it would be if the right treap were attached on the wrong side
\* of a left root of higher priority
RECURSIVE merge_swapped_sides(_, _)
merge_swapped_sides(left, right) ==
    IF left = NULL THEN right
    ELSE IF right = NULL THEN left
    ELSE LET l == propagate(left)
             r == propagate(right)
         IN  IF get_priority(l) > get_priority(r)
             THEN recalc(reset_min([l EXCEPT !.left_child =
                                        merge_swapped_sides(r, l.left_child)]))
             ELSE recalc(reset_min([r EXCEPT !.left_child =
                                        merge_swapped_sides(l, r.left_child)]))

\* merge as it would be if the root of lower priority became the parent
RECURSIVE merge_lower_on_top(_, _)
merge_lower_on_top(left, right) ==
    IF left = NULL THEN right
    ELSE IF right = NULL THEN left
    ELSE LET l == propagate(left)
             r == propagate(right)
         IN  IF get_priority(l) < get_priority(r)
             THEN recalc(reset_min([l EXCEPT !.right_child =
                                        merge_lower_on_top(l.right_child, r)]))
             ELSE recalc(reset_min([r EXCEPT !.left_child =
                                        merge_lower_on_top(l, r.left_child)]))

RECURSIVE merge(_, _)
merge(left, right) ==
    IF left = NULL THEN right
    ELSE IF right = NULL THEN left
    ELSE LET l == propagate(left)
             r == propagate(right)
         IN  IF get_priority(l) > get_priority(r)
             THEN recalc(reset_min([l EXCEPT !.right_child = merge(l.right_child, r)]))
             ELSE recalc(reset_min([r EXCEPT !.left_child = merge(l, r.left_child)]))

\* split as it would be if the index passed to the right subtree did not
\* count the current node
RECURSIVE split_index_off_by_one(_, _)
split_index_off_by_one(current, index) ==
    IF current = NULL THEN <<NULL, NULL>>
    ELSE LET c == propagate(current)
         IN  IF get_size(c.left_child) >= index
             THEN LET left_res == split_index_off_by_one(c.left_child, index)
                  IN  <<left_res[1],
                        recalc(reset_min([c EXCEPT !.left_child = left_res[2]]))>>
             ELSE LET index2 == index - get_size(c.left_child)
                      right_res == split_index_off_by_one(c.right_child, index2)
                  IN  <<recalc(reset_min([c EXCEPT !.right_child = right_res[1]])),
                        right_res[2]>>

\* split as it would be if the index were compared as an unsigned number,
\* so that a negative index is larger than every size
RECURSIVE split_unsigned_compare(_, _)
split_unsigned_compare(current, index) ==
    IF current = NULL THEN <<NULL, NULL>>
    ELSE LET c == propagate(current)
         IN  IF index >= 0 /\ get_size(c.left_child) >= index
             THEN LET left_res == split_unsigned_compare(c.left_child, index)
                  IN  <<left_res[1],
                        recalc(reset_min([c EXCEPT !.left_child = left_res[2]]))>>
             ELSE LET index2 == index - get_size(c.left_child) - 1
                      right_res == split_unsigned_compare(c.right_child, index2)
                  IN  <<recalc(reset_min([c EXCEPT !.right_child = right_res[1]])),
                        right_res[2]>>

\* split returns the vector {res[0], res[1]} as <<res[0], res[1]>>
RECURSIVE split(_, _)
split(current, index) ==
    IF current = NULL THEN <<NULL, NULL>>
    ELSE LET c == propagate(current)
         IN  IF get_size(c.left_child) >= index
             THEN LET left_res == split(c.left_child, index)
                  IN  <<left_res[1],
                        recalc(reset_min([c EXCEPT !.left_child = left_res[2]]))>>
             ELSE LET index2 == index - get_size(c.left_child) - 1
                      right_res == split(c.right_child, index2)
                  IN  <<recalc(reset_min([c EXCEPT !.right_child = right_res[1]])),
                        right_res[2]>>

\* find_min as it would be if going right did not count the current node
RECURSIVE find_min_right_without_current(_, _)
find_min_right_without_current(current, indices_passed) ==
    IF current = NULL THEN [t |-> NULL, index |-> NO_INDEX]
    ELSE LET c == propagate(current)
             index == get_size(c.left_child) + indices_passed
         IN  IF get_min_value(c) = get_min_value(c.left_child)
             THEN LET f == find_min_right_without_current(c.left_child, indices_passed)
                  IN  [t |-> [c EXCEPT !.left_child = f.t], index |-> f.index]
             ELSE IF get_min_value(c) = get_min_value(c.right_child)
                  THEN LET f == find_min_right_without_current(c.right_child, index)
                       IN  [t |-> [c EXCEPT !.right_child = f.t], index |-> f.index]
                  ELSE [t |-> c, index |-> index]

\* find_min as it would be if the right subtree were checked first
RECURSIVE find_min_right_first(_, _)
find_min_right_first(current, indices_passed) ==
    IF current = NULL THEN [t |-> NULL, index |-> NO_INDEX]
    ELSE LET c == propagate(current)
             index == get_size(c.left_child) + indices_passed
         IN  IF get_min_value(c) = get_min_value(c.right_child)
             THEN LET f == find_min_right_first(c.right_child, index + 1)
                  IN  [t |-> [c EXCEPT !.right_child = f.t], index |-> f.index]
             ELSE IF get_min_value(c) = get_min_value(c.left_child)
                  THEN LET f == find_min_right_first(c.left_child, indices_passed)
                       IN  [t |-> [c EXCEPT !.left_child = f.t], index |-> f.index]
                  ELSE [t |-> c, index |-> index]

\* find_min returns the index; it also rewrites the nodes it propagates,
\* so the result carries the treap as find_min leaves it.
RECURSIVE find_min(_, _)
find_min(current, indices_passed) ==
    IF current = NULL THEN [t |-> NULL, index |-> NO_INDEX]
    ELSE LET c == propagate(current)
             index == get_size(c.left_child) + indices_passed
         IN  IF get_min_value(c) = get_min_value(c.left_child)
             THEN LET f == find_min(c.left_child, indices_passed)
                  IN  [t |-> [c EXCEPT !.left_child = f.t], index |-> f.index]
             ELSE IF get_min_value(c) = get_min_value(c.right_child)
                  THEN LET f == find_min(c.right_child, index + 1)
                       IN  [t |-> [c EXCEPT !.right_child = f.t], index |-> f.index]
                  ELSE [t |-> c, index |-> index]

\* remove_first as it would be if it cut off two elements
remove_first_two(x) ==
    IF get_size(x) >= 1
    THEN LET res == split(x, 2)
         IN  [t |-> res[2], did_split |-> TRUE, deleted |-> res[1]]
    ELSE [t |-> x, did_split |-> FALSE, deleted |-> NULL]

\* remove_first returns res[1]; the result also tells whether split was
\* called and which object was deleted.
remove_first(x) ==
    IF get_size(x) >= 1
    THEN LET res == split(x, 1)
         IN  [t |-> res[2], did_split |-> TRUE, deleted |-> res[1]]
    ELSE [t |-> x, did_split |-> FALSE, deleted |-> NULL]

\* reverse_subarray as it would be if the segment were one element short
reverse_subarray_short(x, from, to) ==
    LET res_left == split(x, from)
        before_subarray == res_left[1]
        res_right == split(res_left[2], to - from)
        subarray == toggle_reverse(res_right[1])
        after_subarray == res_right[2]
    IN  merge(merge(before_subarray, subarray), after_subarray)

reverse_subarray(x, from, to) ==
    LET res_left == split(x, from)
        before_subarray == res_left[1]
        res_right == split(res_left[2], to - from + 1)
        subarray == [res_right[1] EXCEPT !.reverse = ~res_right[1].reverse]
        after_subarray == res_right[2]
    IN  merge(merge(before_subarray, subarray), after_subarray)

\* The pointer subarray of reverse_subarray, which line 347 dereferences.
segment_root(x, from, to) ==
    split(split(x, from)[2], to - from + 1)[1]

\* What reverse_subarray returns when subarray is nullptr and the write
\* through it at line 347 has no effect on the treap.
reverse_subarray_null_segment(x, from, to) ==
    LET res_left == split(x, from)
        res_right == split(res_left[2], to - from + 1)
    IN  merge(merge(res_left[1], NULL), res_right[2])

\* What inorder() prints for the treap x: the traversal that propagates
\* each node before it visits the node's children.
RECURSIVE inorder(_)
inorder(x) ==
    IF x = NULL THEN <<>>
    ELSE LET c == propagate(x)
         IN  inorder(c.left_child) \o <<c.value>> \o inorder(c.right_child)

\* ------------------------------------------------------------- callers
\* Does some node of the treap x carry a reversal flag?
RECURSIVE AnyPending(_)
AnyPending(x) ==
    IF x = NULL THEN FALSE
    ELSE x.reverse \/ AnyPending(x.left_child) \/ AnyPending(x.right_child)

\* The record of the last operation: op its name; a and b the in-order
\* sequences of its first and second input treap; pend and pend2 whether
\* these carried reversal flags; sz the sum of their cached sizes; i and j
\* its integer arguments; res its integer result; gone the object it
\* deleted; orig, for a merge that directly follows a split, the sequence
\* of the treap that was split; fault how the call failed, "none" if it
\* returned normally.
NoOp == [op |-> "none", a |-> <<>>, b |-> <<>>, pend |-> FALSE, pend2 |-> FALSE,
         sz |-> 0, i |-> 0, j |-> 0, res |-> 0, gone |-> NULL, orig |-> <<>>,
         after_split |-> FALSE, fault |-> "none"]

Called(op, x, y) ==
    [NoOp EXCEPT !.op = op, !.a = inorder(x), !.b = inorder(y),
                 !.pend = AnyPending(x), !.pend2 = AnyPending(y),
                 !.sz = get_size(x) + get_size(y)]

Init ==
    /\ root = NULL
    /\ rest = NULL
    /\ last = NoOp
    /\ pc = "engine"
    /\ array = <<>>
    /\ step = 0
    /\ output = <<>>
    /\ full = <<>>
    /\ heap = <<>>
    /\ last_pos = -1
    /\ hlast = NoHeapOp

DriverVars == <<array, step, output, full>>

\* root = root->merge(root, new Node(value)), as main() builds the treap
InsertLast(value, priority) ==
    /\ pc = "engine"
    /\ get_size(root) < MaxNodes
    /\ root' = merge(root, NewNode(value, priority))
    /\ last' = Called("insert", root, NewNode(value, priority))
    /\ UNCHANGED <<rest, pc, DriverVars, HeapVars>>

\* A caller splits its treap at k and holds both parts.
Split(k) ==
    /\ pc = "engine"
    /\ k \in 0..get_size(root)
    /\ LET res == split(root, k)
       IN  /\ root' = res[1]
           /\ rest' = res[2]
    /\ last' = [Called("split", root, NULL) EXCEPT !.i = k]
    /\ pc' = "parts"
    /\ UNCHANGED <<DriverVars, HeapVars>>

\* The caller merges the two parts it holds, in order.
Merge ==
    /\ pc = "parts"
    /\ root' = merge(root, rest)
    /\ rest' = NULL
    /\ last' = [Called("merge", root, rest) EXCEPT
                    !.after_split = (last.op = "split"),
                    !.i = IF last.op = "split" THEN last.i ELSE 0,
                    !.orig = IF last.op = "split" THEN last.a ELSE <<>>]
    /\ pc' = "engine"
    /\ UNCHANGED <<DriverVars, HeapVars>>

ReverseRange(from, to) ==
    /\ pc \in {"engine", "parts"}
    /\ from \in 0..(get_size(root) - 1)
    /\ to \in from..(get_size(root) - 1)
    /\ root' = reverse_subarray(root, from, to)
    /\ last' = [Called("reverse", root, NULL) EXCEPT !.i = from, !.j = to]
    /\ UNCHANGED <<rest, pc, DriverVars, HeapVars>>

\* Between a split and a merge the caller may reverse a range of the
\* right part as well, so that both arguments of merge can carry flags.
ReverseRest(from, to) ==
    /\ pc = "parts"
    /\ from \in 0..(get_size(rest) - 1)
    /\ to \in from..(get_size(rest) - 1)
    /\ rest' = reverse_subarray(rest, from, to)
    /\ last' = [Called("reverse_rest", rest, NULL) EXCEPT !.i = from, !.j = to]
    /\ UNCHANGED <<root, pc, DriverVars, HeapVars>>

RemoveFirst ==
    /\ pc = "engine"
    /\ LET m == remove_first(root)
       IN  /\ root' = m.t
           /\ last' = [Called("remove_first", root, NULL) EXCEPT
                            !.i = IF m.did_split THEN 1 ELSE 0,
                            !.gone = m.deleted]
    /\ UNCHANGED <<rest, pc, DriverVars, HeapVars>>

FindMin ==
    /\ pc = "engine"
    /\ LET m == find_min(root, 0)
       IN  /\ root' = m.t
           /\ last' = [Called("find_min", root, NULL) EXCEPT !.res = m.index]
    /\ UNCHANGED <<rest, pc, DriverVars, HeapVars>>

Next ==
    \/ \E v \in Values, p \in Priorities : InsertLast(v, p)
    \/ \E k \in 0..MaxNodes : Split(k)
    \/ Merge
    \/ \E from \in 0..MaxNodes, to \in 0..MaxNodes : ReverseRange(from, to)
    \/ \E from \in 0..MaxNodes, to \in 0..MaxNodes : ReverseRest(from, to)
    \/ RemoveFirst
    \/ FindMin

Spec == Init /\ [][Next]_vars

\* ------------------------------------------- callers outside the contract
\* A caller hands reverse_subarray a range that is not 0 <= from <= to < size.
\* The code validates nothing.  When subarray is nullptr, line 347 writes
\* through a null pointer, which is undefined behaviour: the process is
\* killed, or it goes on with the write lost.
ReverseInvalid(from, to) ==
    /\ pc = "engine"
    /\ from > to \/ to >= get_size(root)
    /\ IF segment_root(root, from, to) = NULL
       THEN /\ last' = [Called("reverse_invalid", root, NULL) EXCEPT
                            !.i = from, !.j = to, !.fault = "null_dereference"]
            /\ \/ pc' = "crashed" /\ root' = root
               \/ pc' = pc /\ root' = reverse_subarray_null_segment(root, from, to)
       ELSE /\ last' = [Called("reverse_invalid", root, NULL) EXCEPT
                            !.i = from, !.j = to]
            /\ pc' = pc
            /\ root' = reverse_subarray(root, from, to)
    /\ UNCHANGED <<rest, DriverVars, HeapVars>>

\* A caller splits its treap at an index outside 0..size.
SplitOutside(k) ==
    /\ pc = "engine"
    /\ k < 0 \/ k > get_size(root)
    /\ LET res == split(root, k)
       IN  /\ root' = res[1]
           /\ rest' = res[2]
    /\ last' = [Called("split_outside", root, NULL) EXCEPT !.i = k]
    /\ pc' = "parts"
    /\ UNCHANGED <<DriverVars, HeapVars>>

NextMisuse ==
    \/ \E v \in Values, p \in Priorities : InsertLast(v, p)
    \/ \E from \in 0..MaxNodes, to \in 0..MaxNodes : ReverseRange(from, to)
    \/ RemoveFirst
    \/ Merge
    \/ \E from \in 0..MaxNodes, to \in 0..MaxNodes : ReverseInvalid(from, to)
    \/ \E k \in (0 - 1)..(MaxNodes + 1) : SplitOutside(k)

SpecMisuse == Init /\ [][NextMisuse]_vars

\* ---------------------------------------------------------------- main()
Perms(n) == {f \in [1..n -> 1..n] : \A i, j \in 1..n : i # j => f[i] # f[j]}

\* the 1-based position of value v in the sequence s
PositionOf(s, v) == CHOOSE i \in 1..Len(s) : s[i] = v

\* s with the segment between the 1-based positions lo and hi reversed
ReverseSegment(s, lo, hi) ==
    [i \in 1..Len(s) |-> IF lo <= i /\ i <= hi THEN s[lo + hi - i] ELSE s[i]]

\* main() has read a permutation of 1..n into array.
InitSort ==
    /\ root = NULL
    /\ rest = NULL
    /\ last = NoOp
    /\ pc = "build"
    /\ array \in UNION {Perms(n) : n \in 1..MaxPerm}
    /\ step = 0
    /\ output = <<>>
    /\ full = array
    /\ heap = <<>>
    /\ last_pos = -1
    /\ hlast = NoHeapOp

\* One Node of the build: new Node(array[0]), then one iteration of the
\* loop that merges new Node(array[i]) into root.
Build(priority) ==
    /\ pc = "build"
    /\ LET i == get_size(root)
       IN  /\ root' = IF i = 0 THEN NewNode(array[1], priority)
                      ELSE merge(root, NewNode(array[i + 1], priority))
           /\ pc' = IF i + 1 = Len(array) THEN "query" ELSE "build"
    /\ last' = [NoOp EXCEPT !.op = "build"]
    /\ UNCHANGED <<rest, array, step, output, full, HeapVars>>

\* One iteration of the query loop.  full is sorted as the task statement
\* says: the segment between index step + 1 and the index of the value
\* step + 1 is reversed.
Query ==
    /\ pc = "query"
    /\ LET f == find_min(root, 0)
           index_of_i == f.index
           reversed == IF index_of_i # 0 THEN reverse_subarray(f.t, 0, index_of_i)
                       ELSE f.t
           m == remove_first(reversed)
       IN  /\ output' = Append(output, index_of_i + step + 1)
           /\ root' = m.t
           /\ last' = [Called("query", root, NULL) EXCEPT
                            !.res = index_of_i, !.gone = m.deleted, !.orig = full]
    /\ full' = ReverseSegment(full, step + 1, PositionOf(full, step + 1))
    /\ step' = step + 1
    /\ pc' = IF step + 1 = Len(array) THEN "done" ELSE "query"
    /\ UNCHANGED <<rest, array, HeapVars>>

NextSort ==
    \/ \E p \in Priorities : Build(p)
    \/ Query

SpecSort == InitSort /\ [][NextSort]_vars

\* --------------------------------------------------------- class MinHeap
\* The memory sift_up can touch: the elements of the vector and the int in
\* front of its first element, which heap[-1] designates.
CellRead(m, id) == IF id = -1 THEN m.before ELSE m.heap[id + 1]
CellWrite(m, id, v) ==
    IF id = -1 THEN [m EXCEPT !.before = v] ELSE [m EXCEPT !.heap[id + 1] = v]

\* swap(id_1, id_2)
swap(m, id_1, id_2) ==
    LET temp == CellRead(m, id_1)
    IN  CellWrite(CellWrite(m, id_1, CellRead(m, id_2)), id_2, temp)

\* id / 2 and id % 2 of C++, which truncate towards zero
DivTwo(id) == IF id >= 0 THEN id \div 2 ELSE 0 - ((0 - id) \div 2)
ModTwo(id) == id - 2 * DivTwo(id)

parent(id) == IF ModTwo(id) = 0 THEN DivTwo(id) - 1 ELSE DivTwo(id)

\* The loop of sift_up from the position id on.  seen holds the loop states
\* passed so far: a state that comes back means the loop never ends.  The
\* result tells the memory the loop leaves, the lowest index it accessed
\* and whether it returned.
RECURSIVE sift_up_from(_, _, _, _)
sift_up_from(m, id, seen, lowest) ==
    LET p == parent(id)
        low == min(lowest, min(id, p))
    IN  IF <<m, id>> \in seen
        THEN [m |-> m, lowest |-> lowest, returned |-> FALSE]
        ELSE IF CellRead(m, id) < CellRead(m, p)
             THEN sift_up_from(swap(m, id, p), p, seen \cup {<<m, id>>}, low)
             ELSE [m |-> m, lowest |-> low, returned |-> TRUE]

\* sift_up(), whose id starts at last_pos
sift_up(m, id) == sift_up_from(m, id, {}, id)

\* The loop of sift_down from the position id on.
RECURSIVE sift_down_from(_, _)
sift_down_from(h, id) ==
    LET left_id == id * 2 + 1
        right_id == id * 2 + 2
        at(i) == h[i + 1]
        swapped(i, j) == [h EXCEPT ![i + 1] = h[j + 1], ![j + 1] = h[i + 1]]
    IN  IF right_id < Len(h)
        THEN IF at(id) > at(left_id) \/ at(id) > at(right_id)
             THEN IF at(left_id) > at(right_id)
                  THEN sift_down_from(swapped(id, right_id), right_id)
                  ELSE sift_down_from(swapped(id, left_id), left_id)
             ELSE h
        ELSE IF left_id < Len(h)
             THEN IF at(id) > at(left_id)
                  THEN sift_down_from(swapped(id, left_id), left_id)
                  ELSE h
             ELSE h

sift_down(h) == sift_down_from(h, 0)

\* What the int in front of the vector's elements may hold.
Garbage == 0..(MaxHeapValue + 1)

HeapValues == 1..MaxHeapValue

InitHeap ==
    /\ root = NULL
    /\ rest = NULL
    /\ last = NoOp
    /\ pc = "heap"
    /\ array = <<>>
    /\ step = 0
    /\ output = <<>>
    /\ full = <<>>
    /\ heap = <<>>
    /\ last_pos = -1
    /\ hlast = NoHeapOp

TreapVars == <<root, rest, last, array, step, output, full>>

\* insert(val).  Reading heap[-1] is undefined behaviour: the int found
\* there is any value.  When sift_up does not return, insert does not.
HeapInsert(val, before) ==
    /\ pc = "heap"
    /\ Len(heap) < MaxHeap
    /\ LET pushed == [heap |-> Append(heap, val), before |-> before]
           up == sift_up(pushed, last_pos + 1)
       IN  /\ heap' = up.m.heap
           /\ hlast' = [NoHeapOp EXCEPT !.op = "insert", !.val = val,
                                        !.lowest = up.lowest,
                                        !.returned = up.returned]
           /\ pc' = IF up.returned THEN "heap" ELSE "hung"
    /\ last_pos' = last_pos + 1
    /\ UNCHANGED TreapVars

\* remove_min()
HeapRemoveMin ==
    /\ pc = "heap"
    /\ IF heap = <<>>
       THEN /\ hlast' = [NoHeapOp EXCEPT !.op = "remove_min", !.res = -1]
            /\ UNCHANGED <<heap, last_pos>>
       ELSE LET min_val == heap[1]
                moved == [heap EXCEPT ![1] = heap[last_pos + 1],
                                      ![last_pos + 1] = heap[1]]
                popped == SubSeq(moved, 1, Len(moved) - 1)
            IN  /\ heap' = sift_down(popped)
                /\ last_pos' = last_pos - 1
                /\ hlast' = [NoHeapOp EXCEPT !.op = "remove_min", !.res = min_val]
    /\ UNCHANGED <<pc, TreapVars>>

NextHeap ==
    \/ \E val \in HeapValues, before \in Garbage : HeapInsert(val, before)
    \/ HeapRemoveMin

SpecHeap == InitHeap /\ [][NextHeap]_vars

Range(s) == {s[i] : i \in 1..Len(s)}
MinOf(s) == CHOOSE v \in Range(s) : \A w \in Range(s) : v <= w
Leftmost(s, v) == CHOOSE i \in 1..Len(s) : s[i] = v /\ \A j \in 1..(i - 1) : s[j] # v

\* C1: merge(a, b) returns a treap whose in-order sequence is the sequence
\* of a followed by the sequence of b, whatever the priorities and the
\* pending reversal flags; merge(empty, b) is b, merge(a, empty) is a and
\* merge(empty, empty) is empty.
MergeConcatenates ==
    /\ last.op \in {"merge", "insert"} => inorder(root) = last.a \o last.b
    /\ merge(NULL, root) = root
    /\ merge(root, NULL) = root
    /\ merge(NULL, rest) = rest
    /\ merge(NULL, NULL) = NULL

\* a merge of two treaps of different values has acted, both carrying flags
MergeWitness ==
    /\ last.op = "merge"
    /\ last.pend /\ last.pend2
    /\ Len(last.a) >= 1 /\ Len(last.b) >= 2
    /\ last.b[1] # last.b[2]
    /\ last.a[1] # last.b[1]

\* C2: split(t, k) with 0 <= k <= size(t) returns the first k elements of
\* the in-order sequence of t and the remaining size(t) - k elements, each
\* in the same order; k = 0 gives (empty, t) and k = size(t) gives (t, empty).
SplitCutsAtK ==
    last.op = "split" =>
        /\ inorder(root) = SubSeq(last.a, 1, last.i)
        /\ inorder(rest) = SubSeq(last.a, last.i + 1, Len(last.a))
        /\ last.i = 0 => root = NULL
        /\ last.i = Len(last.a) => rest = NULL

\* a split strictly inside a treap that carried flags has acted
SplitWitness ==
    /\ last.op = "split"
    /\ last.pend
    /\ last.i = 1 /\ Len(last.a) = 3
    /\ last.a[2] # last.a[3]

\* C3: reverseRange(root, from, to) with 0 <= from <= to < size returns a
\* treap whose in-order sequence is the old one with the elements at
\* positions from..to reversed and every other element where it was, also
\* when flags of earlier reversals are still pending.
ReverseRangeReverses ==
    /\ last.op = "reverse" =>
           inorder(root) = ReverseSegment(last.a, last.i + 1, last.j + 1)
    /\ last.op = "reverse_rest" =>
           inorder(rest) = ReverseSegment(last.a, last.i + 1, last.j + 1)

\* a reversal of a proper range has acted on a treap that carried flags
ReverseWitness ==
    /\ last.op = "reverse"
    /\ last.pend
    /\ last.i = 1 /\ last.j = 2 /\ Len(last.a) = 3
    /\ last.a[2] # last.a[3]
    /\ AnyPending(root)

\* C4: find_min(root, 0) returns a 0-based position of the sequence at
\* which the minimum of the sequence stands; on an empty treap it returns
\* the sentinel -1.
FindMinFindsMinimum ==
    last.op = "find_min" =>
        IF last.a = <<>> THEN last.res = NO_INDEX
        ELSE /\ last.res \in 0..(Len(last.a) - 1)
             /\ last.a[last.res + 1] = MinOf(last.a)

\* find_min has acted on a treap with flags whose minimum is not in front
FindMinWitness ==
    /\ last.op = "find_min"
    /\ last.pend
    /\ last.res = 2
    /\ last.a[1] # last.a[3]

\* the values stored in the subtree of x
RECURSIVE ValuesIn(_)
ValuesIn(x) ==
    IF x = NULL THEN {}
    ELSE {x.value} \cup ValuesIn(x.left_child) \cup ValuesIn(x.right_child)

\* Does the treap x, pending reversals resolved, have a node that holds m
\* while m occurs in its right subtree and not in its left subtree?
RECURSIVE OnlyRightRepeats(_, _)
OnlyRightRepeats(x, m) ==
    IF x = NULL THEN FALSE
    ELSE LET c == propagate(x)
         IN  \/ /\ c.value = m
                /\ m \notin ValuesIn(c.left_child)
                /\ m \in ValuesIn(c.right_child)
             \/ OnlyRightRepeats(c.left_child, m)
             \/ OnlyRightRepeats(c.right_child, m)

\* C5 as stated: when several elements share the minimum value, find_min
\* returns the position of the leftmost occurrence, for every tree shape.
FindMinLeftmostAlways ==
    (last.op = "find_min" /\ last.a # <<>>) =>
        last.res + 1 = Leftmost(last.a, MinOf(last.a))

\* C5 as amended: find_min returns the position of an occurrence of the
\* minimum, and of the leftmost occurrence for every tree shape in which no
\* node holding the minimum has another occurrence of it in its right
\* subtree and none in its left subtree.
FindMinLeftmostUnlessRightRepeats ==
    (last.op = "find_min" /\ last.a # <<>>) =>
        /\ last.a[last.res + 1] = MinOf(last.a)
        /\ ~OnlyRightRepeats(root, MinOf(last.a)) =>
               last.res + 1 = Leftmost(last.a, MinOf(last.a))

\* find_min has acted on a treap with two occurrences of the minimum, none
\* of them in front, in a shape the amended claim covers
FindMinTieWitness ==
    /\ last.op = "find_min"
    /\ last.a = <<2, 1, 1>>
    /\ last.res = 1
    /\ ~OnlyRightRepeats(root, 1)

\* C6: remove_first on a non-empty treap returns the treap of the sequence
\* without its first element, one shorter, and deletes a single childless
\* node; on an empty treap it returns the empty treap and calls no split.
RemoveFirstDropsHead ==
    last.op = "remove_first" =>
        IF last.a = <<>>
        THEN root = NULL /\ last.i = 0 /\ last.gone = NULL
        ELSE /\ inorder(root) = Tail(last.a)
             /\ get_size(root) = last.sz - 1
             /\ last.i = 1
             /\ last.gone # NULL
             /\ last.gone.left_child = NULL /\ last.gone.right_child = NULL
             /\ last.gone.size = 1
             /\ last.gone.value = Head(last.a)

\* remove_first has acted on a treap of three elements that carried flags
RemoveFirstWitness ==
    /\ last.op = "remove_first"
    /\ last.pend
    /\ Len(last.a) = 3
    /\ last.a[1] # last.a[2]

\* C7: main() removes the values of a permutation of 1..n in ascending
\* order: step i reports index + i + 1, index being the position of value
\* i + 1 in the treap and the reported number its 1-based position in the
\* partially sorted full array before the step; the node deleted at step i
\* holds i + 1; after n steps the treap is empty; [4, 2, 1, 3] reports
\* 3, 2, 4, 4.
SortByReversal ==
    /\ last.op = "query" =>
           /\ output[step] = last.res + (step - 1) + 1
           /\ last.a[last.res + 1] = step
           /\ output[step] = PositionOf(last.orig, step)
           /\ last.gone # NULL /\ last.gone.value = step
    /\ pc \in {"query", "done"} => full = [k \in 1..step |-> k] \o inorder(root)
    /\ pc = "done" => root = NULL /\ Len(output) = Len(array)
    /\ (pc = "done" /\ array = <<4, 2, 1, 3>>) => output = <<3, 2, 4, 4>>

\* main() has sorted [4, 2, 1, 3]
SortWitness ==
    /\ pc = "done"
    /\ array = <<4, 2, 1, 3>>
    /\ output = <<3, 2, 4, 4>>
    /\ last.op = "query"

\* Is the cached minimum of every node of x the minimum of its subtree?
RECURSIVE MinCacheOk(_)
MinCacheOk(x) ==
    IF x = NULL THEN TRUE
    ELSE /\ x.min_value \in ValuesIn(x)
         /\ \A v \in ValuesIn(x) : x.min_value <= v
         /\ MinCacheOk(x.left_child)
         /\ MinCacheOk(x.right_child)

\* C8: between operations every reachable node caches the minimum value of
\* its subtree, flag pending or not, so the root caches the minimum of the
\* sequence, also after a split has detached the node that held it.
SubtreeMinCorrect ==
    /\ MinCacheOk(root)
    /\ MinCacheOk(rest)
    /\ root # NULL => get_min_value(root) = MinOf(inorder(root))
    /\ rest # NULL => get_min_value(rest) = MinOf(inorder(rest))

\* the node that held the only minimum has been cut off a treap that still
\* has two nodes and a pending flag
DetachedMinWitness ==
    /\ last.op = "remove_first"
    /\ last.gone # NULL
    /\ get_size(root) >= 2
    /\ last.gone.value < get_min_value(root)
    /\ AnyPending(root)

\* Is the cached size of every node of x one more than its children's?
RECURSIVE SizeCacheOk(_)
SizeCacheOk(x) ==
    IF x = NULL THEN TRUE
    ELSE /\ x.size = 1 + get_size(x.left_child) + get_size(x.right_child)
         /\ SizeCacheOk(x.left_child)
         /\ SizeCacheOk(x.right_child)

\* C9: between operations every reachable node has size = 1 + size(left) +
\* size(right), size(null) = 0; size(merge(a, b)) = size(a) + size(b); and
\* split(t, k) yields size(leftPart) = k and sizes that add up to size(t).
SizeCached ==
    /\ SizeCacheOk(root)
    /\ SizeCacheOk(rest)
    /\ get_size(NULL) = 0
    /\ last.op \in {"merge", "insert"} => get_size(root) = last.sz
    /\ last.op = "split" =>
           /\ get_size(root) = last.i
           /\ get_size(root) + get_size(rest) = last.sz

\* a split has left two nodes on the right of a treap of three
SizeWitness ==
    /\ last.op = "split"
    /\ last.sz = 3
    /\ get_size(root) = 1
    /\ get_size(rest) = 2

\* C10: merging the two results of split(t, k), in order, yields a treap
\* whose in-order sequence is the one t had before the split.
SplitThenMergeRestores ==
    (last.op = "merge" /\ last.after_split) => inorder(root) = last.orig

\* a treap of three with flags has been split inside and merged again
SplitMergeWitness ==
    /\ last.op = "merge"
    /\ last.after_split
    /\ last.i = 2
    /\ Len(last.orig) = 3
    /\ last.orig[1] # last.orig[3]
    /\ last.pend

\* Is the priority of every node of x at least that of each of its children?
RECURSIVE HeapOk(_)
HeapOk(x) ==
    IF x = NULL THEN TRUE
    ELSE /\ x.left_child # NULL => x.priority >= x.left_child.priority
         /\ x.right_child # NULL => x.priority >= x.right_child.priority
         /\ HeapOk(x.left_child)
         /\ HeapOk(x.right_child)

\* C11: between operations, after any sequence of merge, split, reverseRange
\* and removeFirst calls, priorities tying or not, the priority of every
\* reachable node is greater than or equal to the priority of each of its
\* children, whatever reversal flags are outstanding.
HeapOrdered ==
    /\ HeapOk(root)
    /\ HeapOk(rest)

\* a merge has put a node on top of a child of equal priority and a child of
\* lower priority, in a treap with a flag outstanding
HeapTieWitness ==
    /\ last.op = "merge"
    /\ get_size(root) = 3
    /\ AnyPending(root)
    /\ root.left_child # NULL /\ root.right_child # NULL
    /\ root.left_child.priority = root.priority
    /\ root.right_child.priority < root.priority

\* The objects on which split(t, k), 0 <= k <= size(t), calls reset_min and
\* recalc at its top level: the propagated root with the child link just
\* rewritten and the cached aggregates still those from before.
Relinked(t) ==
    IF t = NULL THEN {}
    ELSE LET c == propagate(t)
         IN  {IF get_size(c.left_child) >= k
              THEN [c EXCEPT !.left_child = split(c.left_child, k)[2]]
              ELSE [c EXCEPT !.right_child =
                        split(c.right_child, k - get_size(c.left_child) - 1)[1]]
              : k \in 0..get_size(c)}

Internal(x) == x.left_child # NULL \/ x.right_child # NULL

MinOfSet(S) == CHOOSE v \in S : \A w \in S : v <= w

\* C12 as stated: for an internal node x whose children's caches are
\* correct, whatever x.min_value held before, recalc(x) without a preceding
\* reset_min sets x.min_value = min(x.value, min of left, min of right).
RecalcAloneRecomputesMin ==
    \A x \in Relinked(root) :
        Internal(x) =>
            recalc(x).min_value =
                min(x.value, min(get_min_value(x.left_child),
                                 get_min_value(x.right_child)))

\* C12 as amended: recalc(x) on its own sets x.min_value to the least of the
\* minimum x had cached before and the children's cached minima; it is the
\* minimum of x.value and the children's minima when reset_min(x) precedes
\* it.  The size is recomputed from the children either way.
RecalcKeepsCachedMin ==
    \A x \in Relinked(root) :
        Internal(x) =>
            /\ recalc(x).min_value =
                   MinOfSet({x.min_value} \cup ValuesIn(x.left_child)
                                          \cup ValuesIn(x.right_child))
            /\ recalc(reset_min(x)).min_value = MinOfSet(ValuesIn(x))
            /\ recalc(x).size = 1 + Len(inorder(x.left_child))
                                                 + Len(inorder(x.right_child))

\* split has cut the only minimum off an internal node, whose cached minimum
\* is now below every value left in its subtree
StaleMinWitness ==
    /\ last.op \in {"insert", "merge", "reverse"}
    /\ \E x \in Relinked(root) :
           /\ Internal(x)
           /\ x.min_value < MinOfSet(ValuesIn(x))
           /\ recalc(x).min_value = x.min_value
           /\ recalc(reset_min(x)).min_value > x.min_value

\* C13: reverse_subarray called with from > to, or to >= the length of the
\* sequence, or on an empty treap, ends in a defined invalid-argument
\* failure: it dereferences no null segment root and returns no treap whose
\* sequence differs from the one it was given.
ReverseInvalidRejected ==
    last.op = "reverse_invalid" =>
        /\ last.fault = "invalid_argument"
        /\ inorder(root) = last.a

\* C14: split(t, k) with k outside 0..size(t) returns, touching no null
\* node, the whole sequence on the left and nothing on the right for
\* k > size(t), nothing on the left and the whole sequence on the right for
\* k < 0, with sequence, cached sizes and cached minima of the results right.
SplitOutsideClamps ==
    last.op = "split_outside" =>
        /\ last.i > Len(last.a) => inorder(root) = last.a /\ rest = NULL
        /\ last.i < 0 => root = NULL /\ inorder(rest) = last.a
        /\ get_size(root) + get_size(rest) = Len(last.a)
        /\ SizeCacheOk(root) /\ SizeCacheOk(rest)
        /\ MinCacheOk(root) /\ MinCacheOk(rest)
        /\ last.fault = "none"

\* split at a negative index has acted on a treap of three with flags
SplitOutsideWitness ==
    /\ last.op = "split_outside"
    /\ last.i < 0
    /\ last.pend
    /\ Len(last.a) = 3
    /\ last.a[1] # last.a[3]

\* Is every element of h at least the element at its parent position?
IsMinHeap(h) ==
    \A id \in 1..(Len(h) - 1) : h[parent(id) + 1] <= h[id + 1]

\* C15: in the MinHeap, for any sequence of insert and remove_min calls,
\* every index at which sift_up accesses heap lies in 0..heap.size()-1, the
\* loop never evaluating heap[parent(0)] = heap[-1], and sift_up returns
\* with the min-heap property holding.
SiftUpStaysInBounds ==
    hlast.op = "insert" =>
        /\ hlast.lowest >= 0
        /\ hlast.returned
        /\ IsMinHeap(heap)

====
